---- MODULE Spec2Model ----
(***************************************************************************)
(* Model of the sun2 integration (custom_components/sun2): the shared      *)
(* location store Sun2Data.locations, the SIG_HA_LOC_UPDATED dispatcher    *)
(* signal, the per-entity binding of Sun2Entity and its event queries, the *)
(* get_location / update_location services on configuration entries, and  *)
(* the reload of entries with the entity registry clean-up.                *)
(***************************************************************************)
EXTENDS Integers, Sequences, FiniteSets, TLC

\* ---------------------------------------------------------------- bounds
MaxEntities == 2
MaxChanges == 2
MaxEntries == 2

Entities == 1..MaxEntities

\* ------------------------------------------------------- location values
\* The sentinel key: loc_params = None means "use HA's configuration".
None == [elevation |-> 0, latitude |-> 0, longitude |-> 0, time_zone |-> "<None>"]

\* Explicit LocParams values.  ParamsBadTz names a time zone that
\* dt_util.get_time_zone cannot determine.
ParamsLondon == [elevation |-> 0, latitude |-> 51, longitude |-> 0, time_zone |-> "Europe/London"]
ParamsBadTz == [elevation |-> 0, latitude |-> 51, longitude |-> 0, time_zone |-> "Mars/Phobos"]
Params == {ParamsLondon, ParamsBadTz}
Keys == {None} \cup Params

\* Values hass.config can take (elevation, latitude, longitude, time_zone).
CfgLondon == [elevation |-> 0, latitude |-> 51, longitude |-> 0, time_zone |-> "Europe/London"]
CfgBerlin == [elevation |-> 10, latitude |-> 52, longitude |-> 13, time_zone |-> "Europe/Berlin"]
HostCfgs == {CfgLondon, CfgBerlin}

ValidTimeZones == {"Europe/London", "Europe/Berlin"}
NoTz == "<no tzinfo>"

\* dt_util.get_time_zone: the tzinfo for a known key, None otherwise.
get_time_zone(tz) == IF tz \in ValidTimeZones THEN tz ELSE NoTz

\* Entity._loc_data = None (class attribute default).
NoData == [id |-> 0, loc |-> <<>>, elv |-> 0, tzi |-> NoTz]

\* Faulty variant: the elevation stored depends on the object constructed.
LocDataDrift(id, lp) ==
    [id |-> id,
     loc |-> <<lp.time_zone, lp.latitude, lp.longitude>>,
     elv |-> lp.elevation + id,
     tzi |-> get_time_zone(lp.time_zone)]

\* LocData.__init__: a new object (identity id) holding the astral Location
\* built from (time_zone, latitude, longitude), the elevation and the tzinfo.
LocData(id, lp) ==
    [id |-> id,
     loc |-> <<lp.time_zone, lp.latitude, lp.longitude>>,
     elv |-> lp.elevation,
     tzi |-> get_time_zone(lp.time_zone)]

\* LocData.from_hass_config: LocData of the host's current configuration.
from_hass_config(id, cfg) == LocData(id, cfg)

VARIABLES
    setup,          \* async_setup has run
    hassCfg,        \* hass.config location fields
    locations,      \* Sun2Data.locations
    nextId,         \* identity of the next object constructed
    state,          \* entity lifecycle: absent, init, added, removed
    loc_params,     \* Sun2Entity._loc_params
    loc_data,       \* Sun2Entity._loc_data
    unsub_update,   \* Sun2Entity._unsub_update is set
    outstanding,    \* scheduled recomputations of the entity that were not cancelled
    render_req,     \* async_schedule_update_ha_state(True) outstanding
    targets,        \* dispatcher targets of SIG_HA_LOC_UPDATED, in connect order
    ready,          \* the event loop's queue of callbacks and tasks
    changes,        \* number of core configuration updates so far
    snap,           \* history: per broadcast, the entities connected at its dispatch and the data sent
    invoked,        \* history: per broadcast, loc_updated invocations per entity
    refreshed,      \* history: per refresh, the LocData it built and the hass.config it read
    lookup_res,     \* history: what the entity's _get_loc_data call returned
    lookup_gen,     \* history: number of refreshes done when that call ran
    entries,        \* hass.config_entries.async_entries(DOMAIN), in order
    svc,            \* history: the last service call and its outcome
    solar_depression, \* astral Location.solar_depression of each LocData, by identity
    query,          \* history: the last _astral_event call and its outcome
    location_name,  \* hass.config.location_name
    registry,       \* the entity registry: entries of this integration's entities
    reloads         \* history: async_reload calls per configuration entry

vars == <<setup, hassCfg, locations, nextId, state, loc_params, loc_data,
          unsub_update, outstanding, render_req, targets, ready, changes, snap, invoked,
          refreshed, lookup_res, lookup_gen, entries, svc, solar_depression, query,
          location_name, registry, reloads>>

entityVars == <<state, loc_params, loc_data, unsub_update, outstanding, render_req>>
bcastVars == <<snap, invoked>>
lookupVars == <<lookup_res, lookup_gen>>
svcVars == <<entries, svc>>
astralVars == <<solar_depression, query>>
entryVars == <<location_name, registry, reloads>>

\* Entities of a class that overrides _setup_fixed_updating to schedule a
\* recurring recomputation; the others inherit the base no-op.
HasFixedUpdating(e) == e % 2 = 1

\* Entities set up by a config entry with source SOURCE_IMPORT (a YAML
\* entry); the others belong to entries with source SOURCE_USER.
Imported(e) == e % 3 = 2

Live(e) == state[e] \in {"init", "added"}
Bound(e) == loc_data[e] # NoData
Connections(e) == Cardinality({i \in DOMAIN targets : targets[i] = e})
Subscribed(e) == Connections(e) > 0

\* The platform is adding an entity: it has run the first update
\* (update_before_add) and has not yet called async_added_to_hass.  Nothing
\* is awaited in between, so no callback or task of the loop runs then.
Adding == \E x \in Entities : state[x] = "init" /\ Bound(x)

\* ------------------------------------------------------- queue items
EventItem(kind) == [t |-> "event", kind |-> kind, e |-> 0, data |-> NoData, b |-> 0]
DispatchItem(d) == [t |-> "dispatch", kind |-> "", e |-> 0, data |-> d, b |-> 0]
HandlerItem(e, d, b) == [t |-> "handler", kind |-> "", e |-> e, data |-> d, b |-> b]
\* The update listener of entry i (entry_updated), started as a task by
\* async_update_entry.
ListenerItem(i) == [t |-> "listener", kind |-> "", e |-> i, data |-> NoData, b |-> 0]

RECURSIVE SeqRemoveAll(_, _)
SeqRemoveAll(s, S) ==
    IF s = <<>> THEN <<>>
    ELSE IF Head(s) \in S THEN SeqRemoveAll(Tail(s), S)
    ELSE <<Head(s)>> \o SeqRemoveAll(Tail(s), S)

\* The identities LocData objects can have: one per refresh and one per
\* explicit key.
LocIds == 1..(MaxChanges + 1 + Cardinality(Params))

\* Sun2Entity._solar_depression: set by some subclasses, absent in others
\* (hasattr is false).
Unset == "<unset>"
SolarDepressionOf(e) == IF e % 2 = 1 THEN "nautical" ELSE Unset

\* No _astral_event call yet.
NoQuery == [e |-> 0, event |-> "", method |-> "", observer_elevation |-> "", outcome |-> "",
            result |-> "", propagated |-> ""]

\* No service call yet.
NoCall == [op |-> "", title |-> "", cfg |-> <<>>, raised |-> FALSE, found |-> 0,
           response |-> <<>>]

Init ==
    /\ setup = FALSE
    /\ hassCfg = CfgLondon
    /\ locations = [k \in Keys |-> NoData]
    /\ nextId = 1
    /\ state = [e \in Entities |-> "absent"]
    /\ loc_params = [e \in Entities |-> None]
    /\ loc_data = [e \in Entities |-> NoData]
    /\ unsub_update = [e \in Entities |-> FALSE]
    /\ outstanding = [e \in Entities |-> 0]
    /\ render_req = [e \in Entities |-> FALSE]
    /\ targets = <<>>
    /\ ready = <<>>
    /\ changes = 0
    /\ snap = <<>>
    /\ invoked = <<>>
    /\ refreshed = <<>>
    /\ lookup_res = [e \in Entities |-> NoData]
    /\ lookup_gen = [e \in Entities |-> 0]
    /\ entries = <<>>
    /\ svc = NoCall
    /\ solar_depression = [i \in LocIds |-> "civil"]
    /\ query = NoQuery
    /\ location_name = "Home"
    /\ registry = {}
    /\ reloads = [i \in 1..MaxEntries |-> 0]

\* Faulty variant: the default entry is only set when missing (setdefault).
update_local_loc_data_keep(locs, d) == IF locs[None] = NoData THEN [locs EXCEPT ![None] = d] ELSE locs

\* Faulty variant: the LocData built is not stored.
update_local_loc_data_skip(locs, d) == locs

\* Faulty variant: the refresh starts from an empty dict.
update_local_loc_data_clear(locs, d) == [k \in Keys |-> IF k = None THEN d ELSE NoData]

\* _update_local_loc_data: locations[None] = LocData.from_hass_config(hass).
update_local_loc_data(locs, d) == [locs EXCEPT ![None] = d]

\* async_setup: first refresh of the default entry, then the services and
\* the EVENT_CORE_CONFIG_UPDATE listener are registered.
AsyncSetup ==
    /\ ~setup
    /\ setup' = TRUE
    /\ LET d == from_hass_config(nextId, hassCfg) IN
        /\ locations' = update_local_loc_data(locations, d)
        /\ refreshed' = Append(refreshed, [data |-> d, cfg |-> hassCfg, kind |-> "setup"])
    /\ nextId' = nextId + 1
    /\ UNCHANGED <<hassCfg, entityVars, targets, ready, changes, bcastVars, lookupVars>>
    /\ UNCHANGED svcVars
    /\ UNCHANGED astralVars
    /\ UNCHANGED entryVars

\* ------------------------------------------------------------ Sun2Entity
\* Sun2Entity.__init__ (run by the platform set-up of a loaded entry):
\* stores loc_params and registers _cancel_update for removal.
CreateEntity(e, lp) ==
    /\ setup
    /\ state[e] = "absent"
    /\ \A x \in Entities : x < e => state[x] # "absent"
    /\ state' = [state EXCEPT ![e] = "init"]
    /\ loc_params' = [loc_params EXCEPT ![e] = lp]
    /\ UNCHANGED <<setup, hassCfg, locations, nextId, loc_data, unsub_update, outstanding,
                   render_req, targets, ready, changes, bcastVars, refreshed, lookupVars>>
    /\ UNCHANGED svcVars
    /\ UNCHANGED astralVars
    /\ UNCHANGED entryVars

\* Faulty variant: the entry of the key is never looked up; every call constructs.
get_loc_data_nocache(e) ==
    LET key == loc_params[e]
        raised == key = None
        d == LocData(nextId, key)
    IN  [raised |-> raised,
         loc_data |-> IF raised THEN NoData ELSE d,
         locations |-> IF raised THEN locations ELSE [locations EXCEPT ![key] = d],
         nextId |-> IF raised THEN nextId ELSE nextId + 1,
         targets |-> targets]

\* Faulty variant: loc_updated is connected whatever the key.
get_loc_data_connect_all(e) ==
    LET key == loc_params[e]
        hit == locations[key] # NoData
        raised == ~hit /\ key = None
        d == IF hit THEN locations[key] ELSE LocData(nextId, key)
    IN  [raised |-> raised,
         loc_data |-> IF raised THEN NoData ELSE d,
         locations |-> IF hit \/ raised THEN locations ELSE [locations EXCEPT ![key] = d],
         nextId |-> IF hit \/ raised THEN nextId ELSE nextId + 1,
         targets |-> IF ~raised THEN Append(targets, e) ELSE targets]

\* Sun2Entity._get_loc_data for entity e: the memoized entry of its key, or
\* a new LocData stored under the key; LocData(None) raises, leaving
\* everything as it was.  A default-location entity connects loc_updated to
\* SIG_HA_LOC_UPDATED.
get_loc_data(e) ==
    LET key == loc_params[e]
        hit == locations[key] # NoData
        raised == ~hit /\ key = None
        d == IF hit THEN locations[key] ELSE LocData(nextId, key)
    IN  [raised |-> raised,
         loc_data |-> IF raised THEN NoData ELSE d,
         locations |-> IF hit \/ raised THEN locations ELSE [locations EXCEPT ![key] = d],
         nextId |-> IF hit \/ raised THEN nextId ELSE nextId + 1,
         targets |-> IF ~raised /\ key = None THEN Append(targets, e) ELSE targets]

\* Faulty variant: the location is resolved on every call.
async_update_always(e) ==
    LET r == get_loc_data(e) IN
        /\ loc_data' = [loc_data EXCEPT ![e] = r.loc_data]
        /\ locations' = r.locations
        /\ nextId' = r.nextId
        /\ targets' = r.targets
        /\ lookup_res' = [lookup_res EXCEPT ![e] = r.loc_data]
        /\ lookup_gen' = [lookup_gen EXCEPT ![e] = Len(refreshed)]

\* Sun2Entity.async_update: resolve the location on the first call, then
\* _update(now) (abstract: the displayed value is not modelled).
async_update(e) ==
    IF loc_data[e] = NoData
    THEN LET r == get_loc_data(e) IN
        /\ loc_data' = [loc_data EXCEPT ![e] = r.loc_data]
        /\ locations' = r.locations
        /\ nextId' = r.nextId
        /\ targets' = r.targets
        /\ lookup_res' = [lookup_res EXCEPT ![e] = r.loc_data]
        /\ lookup_gen' = [lookup_gen EXCEPT ![e] = Len(refreshed)]
    ELSE UNCHANGED <<loc_data, locations, nextId, targets, lookupVars>>

\* The host asks a live entity for an update (update_before_add, or a
\* scheduled recomputation).
AsyncUpdate(e) ==
    /\ Live(e)
    /\ async_update(e)
    /\ UNCHANGED <<setup, hassCfg, state, loc_params, unsub_update, outstanding, render_req,
                   ready, changes, bcastVars, refreshed>>
    /\ UNCHANGED svcVars
    /\ UNCHANGED astralVars
    /\ UNCHANGED entryVars

\* Sun2Entity._setup_fixed_updating: the base class does nothing; a subclass
\* with fixed updating schedules its recomputation and keeps the canceller.
setup_fixed_updating(unsub, e) == IF HasFixedUpdating(e) THEN TRUE ELSE unsub

\* Sun2Entity._cancel_update: call and clear _unsub_update when set.
cancel_update(unsub) == FALSE

\* The recomputations left scheduled: _setup_fixed_updating of a subclass
\* with fixed updating schedules one more, _cancel_update cancels the one
\* _unsub_update refers to.
schedules_after_setup(n, e) == IF HasFixedUpdating(e) THEN n + 1 ELSE n
schedules_after_cancel(n, unsub) == IF unsub THEN n - 1 ELSE n

\* Sun2Entity.async_added_to_hass.
AddedToHass(e) ==
    /\ state[e] = "init"
    /\ state' = [state EXCEPT ![e] = "added"]
    /\ unsub_update' = [unsub_update EXCEPT ![e] = setup_fixed_updating(unsub_update[e], e)]
    /\ outstanding' = [outstanding EXCEPT ![e] = schedules_after_setup(@, e)]
    /\ UNCHANGED <<setup, hassCfg, locations, nextId, loc_params, loc_data,
                   render_req, targets, ready, changes, bcastVars, refreshed, lookupVars>>
    /\ UNCHANGED svcVars
    /\ UNCHANGED astralVars
    /\ UNCHANGED entryVars

\* Entity removal runs the async_on_remove callbacks of the entities in S:
\* _cancel_update and the disconnect returned by async_dispatcher_connect.
Teardown(S) ==
    /\ state' = [e \in Entities |-> IF e \in S THEN "removed" ELSE state[e]]
    /\ unsub_update' = [e \in Entities |->
                          IF e \in S THEN cancel_update(unsub_update[e]) ELSE unsub_update[e]]
    /\ outstanding' = [e \in Entities |->
                         IF e \in S THEN schedules_after_cancel(outstanding[e], unsub_update[e])
                         ELSE outstanding[e]]
    /\ targets' = SeqRemoveAll(targets, S)

RemoveEntity(e) ==
    /\ Live(e)
    /\ Teardown({e})
    /\ UNCHANGED <<setup, hassCfg, locations, nextId, loc_params, loc_data,
                   render_req, ready, changes, bcastVars, refreshed, lookupVars>>
    /\ UNCHANGED svcVars
    /\ UNCHANGED astralVars
    /\ UNCHANGED entryVars

\* The host serves an async_schedule_update_ha_state(True) request:
\* async_update_ha_state(force_refresh) runs async_update.
StateRefresh(e) ==
    /\ render_req[e]
    /\ render_req' = [render_req EXCEPT ![e] = FALSE]
    /\ async_update(e)
    /\ UNCHANGED <<setup, hassCfg, state, loc_params, unsub_update, outstanding,
                   ready, changes, bcastVars, refreshed>>
    /\ UNCHANGED svcVars
    /\ UNCHANGED astralVars
    /\ UNCHANGED entryVars

\* ------------------------------------------------- core config updates
\* hass.config.async_update: the host changes its configuration and fires
\* EVENT_CORE_CONFIG_UPDATE; kind is what event.data holds: "empty" (no
\* field), "loc" (neither location_name nor language), "name" (one of them).
HostConfigChange(kind, cfg, name) ==
    /\ setup
    /\ changes < MaxChanges
    /\ changes' = changes + 1
    /\ hassCfg' = IF kind = "empty" THEN hassCfg ELSE cfg
    /\ location_name' = IF kind = "name" THEN name ELSE location_name
    /\ ready' = Append(ready, EventItem(kind))
    /\ UNCHANGED <<setup, locations, nextId, entityVars, targets, bcastVars,
                   refreshed, lookupVars>>
    /\ UNCHANGED svcVars
    /\ UNCHANGED astralVars
    /\ UNCHANGED <<registry, reloads>>

\* Entities whose entry the loop of handle_core_config_update reloads:
\* every entry but those with source SOURCE_IMPORT.
ReloadedEntities == {e \in Entities : Live(e) /\ ~Imported(e)}

\* ---- the loop of handle_core_config_update over the config entries
\* An entry that uses HA's location: its options hold no latitude.
IsHome(en) == "latitude" \notin DOMAIN en.options

\* async_setup_entry has added the update listener entry_updated: the host
\* sets up the entries that are neither disabled nor ignored.
HasListener(en) == ~en.disabled /\ en.source # "ignore"

\* The loop gives a home entry the host's location name as title;
\* async_update_entry returns whether that changed the entry.
loop_renames(en, name) == en.source # "import" /\ IsHome(en) /\ en.title # name

\* Faulty variant: every entry that is not imported is reloaded by the loop.
loop_reloads_all(en, name) == en.source # "import"

\* The value of reload for an entry the loop does not skip: True for an
\* entry with a latitude, not async_update_entry(...) for a home entry.
loop_reloads(en, name) == en.source # "import" /\ (IsHome(en) => en.title = name)

\* The listener tasks async_update_entry starts, for the entries from index
\* i on, in the order of the loop.
RECURSIVE LoopListeners(_, _, _)
LoopListeners(es, name, i) ==
    IF i > Len(es) THEN <<>>
    ELSE (IF loop_renames(es[i], name) /\ HasListener(es[i])
          THEN <<ListenerItem(i)>> ELSE <<>>) \o LoopListeners(es, name, i + 1)

\* Faulty variant: the signal is sent with the entry read before the refresh.
BroadcastDataStale(built, locs) == locs[None]

\* What handle_core_config_update hands to dispatcher_send: the LocData
\* that _update_local_loc_data just built and stored.
BroadcastData(built, locs) == built

\* handle_core_config_update, run by the event loop for one event.
\* reload_config() re-imports the YAML configuration, which is taken not to
\* have changed: it removes and creates no imported entry.
HandleCoreConfigUpdate ==
    /\ ~Adding
    /\ ready # <<>> /\ Head(ready).t = "event"
    /\ LET kind == Head(ready).kind
           d == from_hass_config(nextId, hassCfg)
       IN IF kind = "empty"
          THEN /\ ready' = Tail(ready)
               /\ UNCHANGED <<locations, nextId, refreshed, state, unsub_update, outstanding,
                              targets, entries, reloads>>
          ELSE /\ locations' = update_local_loc_data(locations, d)
               /\ nextId' = nextId + 1
               /\ refreshed' = Append(refreshed, [data |-> d, cfg |-> hassCfg, kind |-> kind])
               /\ IF kind = "loc"
                  THEN /\ ready' = Append(Tail(ready), DispatchItem(BroadcastData(d, locations)))
                       /\ UNCHANGED <<state, unsub_update, outstanding, targets, entries,
                                      reloads>>
                  ELSE /\ ready' = Tail(ready) \o LoopListeners(entries, location_name, 1)
                       /\ entries' = [i \in DOMAIN entries |->
                                        IF loop_renames(entries[i], location_name)
                                        THEN [entries[i] EXCEPT !.title = location_name]
                                        ELSE entries[i]]
                       /\ reloads' = [i \in 1..MaxEntries |->
                                        IF i \in DOMAIN entries
                                           /\ loop_reloads(entries[i], location_name)
                                        THEN reloads[i] + 1 ELSE reloads[i]]
                       /\ Teardown(ReloadedEntities)
    /\ UNCHANGED <<setup, hassCfg, loc_params, loc_data, render_req, changes,
                   bcastVars, lookupVars>>
    /\ UNCHANGED svc
    /\ UNCHANGED astralVars
    /\ UNCHANGED <<location_name, registry>>

\* Faulty variant: the last connected target is left out.
DispatchTargetsShort(tl) == SubSeq(tl, 1, Len(tl) - 1)

\* The targets async_dispatcher_send runs: a copy of the signal's target
\* list taken before the first job is started.
DispatchTargets(tl) == tl

\* dispatcher_send, once the loop runs it: one loc_updated task per target.
Dispatch ==
    /\ ~Adding
    /\ ready # <<>> /\ Head(ready).t = "dispatch"
    /\ LET b == Len(snap) + 1
           tl == DispatchTargets(targets)
       IN /\ ready' = Tail(ready) \o [i \in 1..Len(tl) |-> HandlerItem(tl[i], Head(ready).data, b)]
          /\ snap' = Append(snap, [ents |-> {targets[i] : i \in DOMAIN targets},
                                  data |-> Head(ready).data])
          /\ invoked' = Append(invoked, [e \in Entities |-> 0])
    /\ UNCHANGED <<setup, hassCfg, locations, nextId, entityVars, targets, changes,
                   refreshed, lookupVars>>
    /\ UNCHANGED svcVars
    /\ UNCHANGED astralVars
    /\ UNCHANGED entryVars

\* Faulty variant: the schedule is set up again without cancelling first.
reschedule_nocancel(unsub, n, e) ==
    [unsub |-> setup_fixed_updating(unsub, e),
     n |-> schedules_after_setup(n, e)]

\* The first and third statements of _async_loc_updated: _cancel_update(),
\* then _setup_fixed_updating().
reschedule(unsub, n, e) ==
    [unsub |-> setup_fixed_updating(cancel_update(unsub), e),
     n |-> schedules_after_setup(schedules_after_cancel(n, unsub), e)]

\* Faulty variant: the new LocData is not stored in the entity.
async_loc_updated_keep(e, d) ==
    /\ unsub_update' = [unsub_update EXCEPT
                          ![e] = reschedule(unsub_update[e], outstanding[e], e).unsub]
    /\ outstanding' = [outstanding EXCEPT
                          ![e] = reschedule(unsub_update[e], outstanding[e], e).n]
    /\ loc_data' = loc_data
    /\ render_req' = [render_req EXCEPT ![e] = TRUE]

\* Sun2Entity._async_loc_updated(loc_data) for entity e.
async_loc_updated(e, d) ==
    /\ unsub_update' = [unsub_update EXCEPT
                          ![e] = reschedule(unsub_update[e], outstanding[e], e).unsub]
    /\ outstanding' = [outstanding EXCEPT
                          ![e] = reschedule(unsub_update[e], outstanding[e], e).n]
    /\ loc_data' = [loc_data EXCEPT ![e] = d]
    /\ render_req' = [render_req EXCEPT ![e] = TRUE]

\* loc_updated, the dispatcher target of entity e:
\* async_request_call(_async_loc_updated(loc_data)).
LocUpdated ==
    /\ ~Adding
    /\ ready # <<>> /\ Head(ready).t = "handler"
    /\ LET it == Head(ready) IN
        /\ async_loc_updated(it.e, it.data)
        /\ invoked' = [invoked EXCEPT ![it.b][it.e] = @ + 1]
    /\ ready' = Tail(ready)
    /\ UNCHANGED <<setup, hassCfg, locations, nextId, state, loc_params,
                   targets, changes, snap, refreshed, lookupVars>>
    /\ UNCHANGED svcVars
    /\ UNCHANGED astralVars
    /\ UNCHANGED entryVars

Next ==
    \/ AsyncSetup
    \/ \E e \in Entities, lp \in Keys : CreateEntity(e, lp)
    \/ \E e \in Entities : AsyncUpdate(e)
    \/ \E e \in Entities : AddedToHass(e)
    \/ \E e \in Entities : RemoveEntity(e)
    \/ \E e \in Entities : StateRefresh(e)
    \/ \E kind \in {"empty", "loc", "name"}, cfg \in HostCfgs :
            HostConfigChange(kind, cfg, location_name)
    \/ HandleCoreConfigUpdate
    \/ Dispatch
    \/ LocUpdated

Spec == Init /\ [][Next]_vars

\* ------------------------------------------------------------ services
Titles == {"Home", "Cabin"}

\* Options of an entry that uses HA's location (no latitude), and of an
\* entry with a location of its own.
HomeOptions == [observer_elevation |-> <<0, 0>>]
LocOptions == [latitude |-> 51, longitude |-> 0, time_zone |-> "Europe/London",
               observer_elevation |-> <<0, 0>>]

EntryKinds ==
    {[title |-> t, source |-> src, disabled |-> d, options |-> o] :
        t \in Titles, src \in {"user", "import"}, d \in BOOLEAN, o \in {HomeOptions, LocOptions}}
    \cup {[title |-> t, source |-> "ignore", disabled |-> FALSE, options |-> <<>>] : t \in Titles}

\* The fields a call of update_location can carry besides the title, and the
\* field sets the calls of the model carry.
NewValues == [latitude |-> 52, longitude |-> 13, time_zone |-> "Europe/Berlin",
              observer_elevation |-> 10]
FieldSets == {{}, {"latitude", "longitude", "time_zone"}, {"observer_elevation"},
              {"latitude", "longitude", "time_zone", "observer_elevation"}}
LocConfig(F) == [f \in F |-> NewValues[f]]

\* The configuration entries exist before the services are called.
SvcInit ==
    /\ setup = FALSE
    /\ hassCfg \in HostCfgs
    /\ locations = [k \in Keys |-> NoData]
    /\ nextId = 1
    /\ state = [e \in Entities |-> "absent"]
    /\ loc_params = [e \in Entities |-> None]
    /\ loc_data = [e \in Entities |-> NoData]
    /\ unsub_update = [e \in Entities |-> FALSE]
    /\ outstanding = [e \in Entities |-> 0]
    /\ render_req = [e \in Entities |-> FALSE]
    /\ targets = <<>> /\ ready = <<>> /\ changes = 0
    /\ snap = <<>> /\ invoked = <<>> /\ refreshed = <<>>
    /\ lookup_res = [e \in Entities |-> NoData]
    /\ lookup_gen = [e \in Entities |-> 0]
    /\ entries \in UNION {[1..n -> EntryKinds] : n \in 1..MaxEntries}
    /\ svc = NoCall
    /\ solar_depression = [i \in LocIds |-> "civil"]
    /\ query = NoQuery
    /\ location_name = "Home"
    /\ registry = {}
    /\ reloads = [i \in 1..MaxEntries |-> 0]

\* Faulty variant: disabled entries are not left out of the search.
entry_by_title_disabled(es, title) ==
    LET match == {i \in DOMAIN es : es[i].source # "ignore" /\ es[i].title = title}
    IN  IF match = {} THEN 0 ELSE CHOOSE i \in match : \A k \in match : i <= k

\* _entry_by_title: the first entry with the title among the entries that
\* are neither ignored nor disabled; 0 stands for the ValueError.
entry_by_title(es, title) ==
    LET match == {i \in DOMAIN es :
                    es[i].source # "ignore" /\ ~es[i].disabled /\ es[i].title = title}
    IN  IF match = {} THEN 0 ELSE CHOOSE i \in match : \A k \in match : i <= k

\* config_flow.loc_from_options: the entry's own location, or HA's.
loc_from_options(cfg, options) ==
    IF "latitude" \in DOMAIN options
    THEN <<options.latitude, options.longitude, options.time_zone>>
    ELSE <<cfg.latitude, cfg.longitude, cfg.time_zone>>

\* config.obs_elv_from_options / config.options_from_obs_elv: the observer
\* elevation is one number in a call and an (east, west) pair in the options.
obs_elv_from_options(cfg, options) == options.observer_elevation[1]
options_from_obs_elv(loc_config) ==
    [loc_config EXCEPT !["observer_elevation"] = <<@, @>>]

\* dict.update.
DictUpdate(options, loc_config) ==
    [f \in DOMAIN options \cup DOMAIN loc_config |->
        IF f \in DOMAIN loc_config THEN loc_config[f] ELSE options[f]]

\* The get_location service.
GetLocation(title) ==
    /\ setup
    /\ LET i == entry_by_title(entries, title) IN
        svc' = IF i = 0
               THEN [op |-> "get_location", title |-> title, cfg |-> <<>>, raised |-> TRUE,
                     found |-> 0, response |-> <<>>]
               ELSE LET loc == loc_from_options(hassCfg, entries[i].options) IN
                    [op |-> "get_location", title |-> title, cfg |-> <<>>, raised |-> FALSE,
                     found |-> i,
                     response |-> [location |-> title, latitude |-> loc[1],
                                   longitude |-> loc[2], time_zone |-> loc[3],
                                   observer_elevation |->
                                       obs_elv_from_options(hassCfg, entries[i].options)]]
    /\ UNCHANGED <<entries, setup, hassCfg, locations, nextId, entityVars, targets, ready,
                   changes, bcastVars, refreshed, lookupVars>>
    /\ UNCHANGED astralVars
    /\ UNCHANGED entryVars

\* Faulty variant: the source of the entry is not checked.
EditableAnySource(entry) == "latitude" \in DOMAIN entry.options

\* The two checks of update_location: the entry was created by the user and
\* its options hold a latitude.
Editable(entry) == entry.source = "user" /\ "latitude" \in DOMAIN entry.options

\* The update_location service.
UpdateLocation(title, F) ==
    /\ setup
    /\ LET i == entry_by_title(entries, title)
           loc_config == IF "observer_elevation" \in F
                         THEN options_from_obs_elv(LocConfig(F)) ELSE LocConfig(F)
           raised == i = 0 \/ ~Editable(entries[i])
       IN /\ svc' = [op |-> "update_location", title |-> title, cfg |-> LocConfig(F),
                     raised |-> raised, found |-> i, response |-> <<>>]
          /\ entries' = IF raised THEN entries
                        ELSE [entries EXCEPT ![i].options = DictUpdate(@, loc_config)]
          /\ ready' = IF /\ ~raised
                         /\ DictUpdate(entries[i].options, loc_config) # entries[i].options
                         /\ HasListener(entries[i])
                      THEN Append(ready, ListenerItem(i)) ELSE ready
    /\ UNCHANGED <<setup, hassCfg, locations, nextId, entityVars, targets,
                   changes, bcastVars, refreshed, lookupVars>>
    /\ UNCHANGED astralVars
    /\ UNCHANGED entryVars

\* ------------------------------------------- entry_updated, the registry
\* Length of an auto-created unique id (uuid4().hex).
UuidLen == 32

HexChars == {"0", "1", "2", "3", "4", "5", "6", "7", "8", "9", "a", "b", "c", "d", "e", "f"}

\* Faulty variant: the pattern is matched at the start of the id only.
uuid_match(uid) ==
    /\ Len(uid) >= UuidLen
    /\ \A k \in 1..UuidLen : uid[k] \in HexChars

\* _UUID_UNIQUE_ID.fullmatch(unique_id), an id being a sequence of characters.
uuid_fullmatch(uid) ==
    /\ Len(uid) = UuidLen
    /\ \A k \in 1..Len(uid) : uid[k] \in HexChars

\* Unique ids the registry and the options of the model hold: two of the
\* auto-created form, one in upper case, one too short, one too long, one
\* with a prefix, one that is a sensor key.
UuidA == [k \in 1..UuidLen |-> "a"]
UuidB == [k \in 1..UuidLen |-> IF k % 2 = 0 THEN "0" ELSE "f"]
UpperId == [k \in 1..UuidLen |-> "A"]
ShortId == [k \in 1..(UuidLen - 1) |-> "a"]
LongId == [k \in 1..(UuidLen + 1) |-> "a"]
PrefixedId == <<"e", "-">> \o UuidA
KeyId == <<"d", "a", "w", "n">>
SampleIds == {UuidA, UuidB, UpperId, ShortId, LongId, PrefixedId, KeyId}

\* Options with additional sensors.
HomeSensors == [observer_elevation |-> <<0, 0>>, sensors |-> <<[unique_id |-> UuidA]>>]
LocBinary == [latitude |-> 51, longitude |-> 0, time_zone |-> "Europe/London",
              observer_elevation |-> <<0, 0>>,
              binary_sensors |-> <<[unique_id |-> UuidB]>>, sensors |-> <<>>]

\* The unique ids of the sensors and binary sensors in an entry's options.
option_unique_ids(options) ==
    UNION {{options[t][k].unique_id : k \in DOMAIN options[t]} :
              t \in {"binary_sensors", "sensors"} \cap DOMAIN options}

\* The registry entries entry_updated removes for entry i.
Stale(reg, i, options) ==
    {r \in reg : /\ r.entry = i
                 /\ uuid_fullmatch(r.unique_id)
                 /\ r.unique_id \notin option_unique_ids(options)}

\* entry_updated, the update listener of entry i, run by the event loop.
EntryUpdated ==
    /\ ~Adding
    /\ ready # <<>> /\ Head(ready).t = "listener"
    /\ LET i == Head(ready).e IN
        /\ registry' = registry \ Stale(registry, i, entries[i].options)
        /\ reloads' = [reloads EXCEPT ![i] = @ + 1]
    /\ ready' = Tail(ready)
    /\ UNCHANGED <<setup, hassCfg, locations, nextId, entityVars, targets,
                   changes, bcastVars, refreshed, lookupVars>>
    /\ UNCHANGED svcVars
    /\ UNCHANGED astralVars
    /\ UNCHANGED location_name

SvcNext ==
    \/ AsyncSetup
    \/ \E title \in Titles : GetLocation(title)
    \/ \E title \in Titles, F \in FieldSets : UpdateLocation(title, F)
    \/ EntryUpdated

SpecSvc == SvcInit /\ [][SvcNext]_vars

\* The configuration entries and the location names of the entries model.
Names == {"Home", "Casa"}
EntryKindsReg ==
    {[title |-> t, source |-> sd[1], disabled |-> sd[2], options |-> o] :
        t \in Titles, sd \in {<<"user", FALSE>>, <<"user", TRUE>>, <<"import", FALSE>>},
        o \in {HomeOptions, HomeSensors, LocOptions, LocBinary}}
    \cup {[title |-> t, source |-> "ignore", disabled |-> FALSE, options |-> <<>>] : t \in Titles}

\* The entries exist, and the registry holds an entity of every id form for
\* each of them.
EntriesInit ==
    /\ setup = FALSE
    /\ hassCfg = CfgLondon
    /\ locations = [k \in Keys |-> NoData]
    /\ nextId = 1
    /\ state = [e \in Entities |-> "absent"]
    /\ loc_params = [e \in Entities |-> None]
    /\ loc_data = [e \in Entities |-> NoData]
    /\ unsub_update = [e \in Entities |-> FALSE]
    /\ outstanding = [e \in Entities |-> 0]
    /\ render_req = [e \in Entities |-> FALSE]
    /\ targets = <<>> /\ ready = <<>> /\ changes = 0
    /\ snap = <<>> /\ invoked = <<>> /\ refreshed = <<>>
    /\ lookup_res = [e \in Entities |-> NoData]
    /\ lookup_gen = [e \in Entities |-> 0]
    /\ entries \in UNION {[1..n -> EntryKindsReg] : n \in 1..MaxEntries}
    /\ svc = NoCall
    /\ solar_depression = [i \in LocIds |-> "civil"]
    /\ query = NoQuery
    /\ location_name = "Home"
    /\ registry = {[entry |-> i, unique_id |-> u] : i \in DOMAIN entries, u \in SampleIds}
    /\ reloads = [i \in 1..MaxEntries |-> 0]

EntriesNext ==
    \/ AsyncSetup
    \/ \E kind \in {"empty", "loc", "name"}, name \in Names :
            HostConfigChange(kind, hassCfg, name)
    \/ HandleCoreConfigUpdate
    \/ Dispatch
    \/ EntryUpdated
    \/ \E title \in Titles : UpdateLocation(title, {"latitude", "longitude", "time_zone"})

SpecEntries == EntriesInit /\ [][EntriesNext]_vars

\* ------------------------------------------------------- event queries
\* The events _astral_event is asked for.
Events == {"sunrise", "sunset", "solar_noon", "solar_midnight", "time_at_elevation"}

\* What the astral method does when called: it returns a time, or raises.
\* KeyError stands for an exception other than TypeError and ValueError
\* raised inside the try block (kwargs["elevation"] of a call without it).
Outcomes == {"time", "ValueError", "TypeError", "KeyError"}

\* The Location method an event is dispatched to: event.split("_")[1] for
\* solar_midnight and solar_noon, the event name otherwise.
AstralMethod(event) ==
    IF event = "solar_midnight" THEN "midnight"
    ELSE IF event = "solar_noon" THEN "noon"
    ELSE event

\* Faulty variant: only TypeError is caught.
CaughtTypeErrorOnly == {"TypeError"}

\* The exceptions the except clause of _astral_event catches.
Caught == {"TypeError", "ValueError"}

\* The try/except of _astral_event: the method's value, None for a caught
\* exception, any other exception propagates.
astral_event(e, event, outcome) ==
    [e |-> e, event |-> event, method |-> AstralMethod(event),
     observer_elevation |->
        IF event \in {"solar_midnight", "solar_noon", "time_at_elevation"}
        THEN "" ELSE ToString(loc_data[e].elv),
     outcome |-> outcome,
     result |-> IF outcome = "time" THEN "time"
                ELSE IF outcome \in Caught THEN "None" ELSE "",
     propagated |-> IF outcome = "time" \/ outcome \in Caught THEN "" ELSE outcome]

\* Sun2Entity._astral_event, called by _update of a BOUND entity: the
\* entity's solar depression, when it has one, is written to the Location
\* of its LocData before the query.
AstralEvent(e, event, outcome) ==
    /\ Live(e) /\ Bound(e)
    /\ solar_depression' =
          IF SolarDepressionOf(e) # Unset
          THEN [solar_depression EXCEPT ![loc_data[e].id] = SolarDepressionOf(e)]
          ELSE solar_depression
    /\ query' = astral_event(e, event, outcome)
    /\ UNCHANGED <<setup, hassCfg, locations, nextId, entityVars, targets, ready,
                   changes, bcastVars, refreshed, lookupVars>>
    /\ UNCHANGED svcVars
    /\ UNCHANGED entryVars

AstralNext ==
    \/ AsyncSetup
    \/ \E e \in Entities, lp \in Keys : CreateEntity(e, lp)
    \/ \E e \in Entities : AsyncUpdate(e)
    \/ \E e \in Entities : AddedToHass(e)
    \/ \E e \in Entities, event \in Events, outcome \in Outcomes : AstralEvent(e, event, outcome)

SpecAstral == Init /\ [][AstralNext]_vars

\* ------------------------------------------------------------------ C1
PendingHandlers(b, e) ==
    Cardinality({i \in DOMAIN ready :
                   ready[i].t = "handler" /\ ready[i].b = b /\ ready[i].e = e})

\* C1: for every broadcast, each entity connected when it was dispatched has
\* exactly one loc_updated invocation (done or still queued, never both,
\* never two), and an entity not connected then has none, whatever entities
\* connect or are removed while the broadcast is in progress.
C1_ExactlyOncePerBroadcast ==
    \A b \in DOMAIN snap : \A e \in Entities :
        /\ invoked[b][e] + PendingHandlers(b, e) = IF e \in snap[b].ents THEN 1 ELSE 0

\* A finished broadcast whose snapshot held an entity that was removed
\* before its handler ran (its schedule was set again after the teardown),
\* while another entity connected after the snapshot and was not invoked.
C1_Witness ==
    \E b \in DOMAIN snap : \E e1, e2 \in Entities :
        /\ e1 \in snap[b].ents /\ state[e1] = "removed" /\ unsub_update[e1]
        /\ invoked[b][e1] = 1
        /\ e2 \notin snap[b].ents /\ Subscribed(e2) /\ invoked[b][e2] = 0
        /\ \A i \in DOMAIN ready : ready[i].t # "handler"

\* ------------------------------------------------------------------ C2
\* C2: two _get_loc_data calls with the same key and no refresh in between
\* (any two calls for an explicit key) returned the identical LocData, which
\* is the one memoized under the key; only the first constructed: the
\* objects constructed are one per refresh and one per memoized explicit key.
C2_IdentityCached ==
    /\ \A e1, e2 \in Entities :
        (/\ lookup_res[e1] # NoData /\ lookup_res[e2] # NoData
         /\ loc_params[e1] = loc_params[e2]
         /\ (loc_params[e1] # None \/ lookup_gen[e1] = lookup_gen[e2]))
        => lookup_res[e1] = lookup_res[e2]
    /\ \A e \in Entities :
        (lookup_res[e] # NoData /\ loc_params[e] # None)
        => locations[loc_params[e]] = lookup_res[e]
    /\ nextId - 1 = Len(refreshed) + Cardinality({p \in Params : locations[p] # NoData})

C2_Witness ==
    \E e1, e2 \in Entities :
        /\ e1 # e2
        /\ loc_params[e1] = ParamsLondon /\ loc_params[e2] = ParamsLondon
        /\ lookup_res[e1] # NoData /\ lookup_res[e2] = lookup_res[e1]

\* ------------------------------------------------------------------ C3
\* C3: the default entry is the LocData built by the latest refresh from the
\* hass.config of that moment, and a default-key lookup returned the LocData
\* built by the latest refresh before it, never one of an earlier refresh.
C3_DefaultReflectsLastRefresh ==
    /\ setup => /\ refreshed # <<>>
                /\ locations[None] = refreshed[Len(refreshed)].data
    /\ \A g \in DOMAIN refreshed :
        refreshed[g].data = from_hass_config(refreshed[g].data.id, refreshed[g].cfg)
    /\ \A e \in Entities :
        (lookup_res[e] # NoData /\ loc_params[e] = None)
        => /\ lookup_gen[e] \in DOMAIN refreshed
           /\ lookup_res[e] = refreshed[lookup_gen[e]].data

\* A default-key lookup made after a second refresh that read another
\* hass.config than the first.
C3_Witness ==
    \E e \in Entities :
        /\ loc_params[e] = None /\ lookup_res[e] # NoData
        /\ lookup_gen[e] >= 2
        /\ refreshed[lookup_gen[e]].cfg # refreshed[1].cfg


\* ------------------------------------------------------------------ C4
\* The event loop runs every callback and task it has queued, and the
\* platform finishes the add of an entity it has started.
LoopStep == HandleCoreConfigUpdate \/ Dispatch \/ LocUpdated

FairSpec == Spec /\ WF_vars(LoopStep) /\ \A e \in Entities : WF_vars(AddedToHass(e))

LastRefresh == refreshed[Len(refreshed)]

\* The broadcast of the LocData built by refresh g has been dispatched and
\* has run the handler of every entity of its snapshot.
Delivered(g) ==
    /\ g \in DOMAIN refreshed
    /\ \E b \in DOMAIN snap :
        /\ snap[b].data = refreshed[g].data
        /\ \A e \in snap[b].ents : invoked[b][e] = 1

C5_OneInstancePerKey ==
    \A e \in Entities : (Live(e) /\ Bound(e)) => loc_data[e] = locations[loc_params[e]]

\* C5 amended: a BOUND entity with an explicit key holds the instance the
\* store holds under that key; a live BOUND default-location entity holds the
\* instance stored under the default key unless a broadcast is still to be
\* dispatched or to be handled by it, or a location_name/language update
\* (which sends no broadcast) refreshed the store after its instance was
\* built.
C5_OneInstanceUnlessUndelivered ==
    /\ \A e \in Entities :
        (Bound(e) /\ loc_params[e] # None) => loc_data[e] = locations[loc_params[e]]
    /\ \A e \in Entities :
        (Live(e) /\ Bound(e) /\ loc_params[e] = None)
        => \/ loc_data[e] = locations[None]
           \/ \E i \in DOMAIN ready :
                 \/ ready[i].t = "dispatch"
                 \/ ready[i].t = "handler" /\ ready[i].e = e
           \/ \E g \in DOMAIN refreshed :
                 /\ refreshed[g].kind = "name"
                 /\ \E h \in 1..(g - 1) : refreshed[h].data = loc_data[e]

\* Two live default-location entities that handled a broadcast and hold the
\* stored instance, next to an entity bound to an explicit key.
C5_Witness ==
    \E e1, e2 \in Entities :
        /\ e1 # e2
        /\ Live(e1) /\ loc_params[e1] = None /\ Bound(e1)
        /\ loc_data[e1] = locations[None] /\ lookup_res[e1] # loc_data[e1]
        /\ Bound(e2) /\ loc_params[e2] # None /\ loc_data[e2] = locations[loc_params[e2]]

\* ------------------------------------------------------------------ C6
\* C6 as claimed: a step never changes the LocData or the schedule of a
\* removed entity, nor requests a state refresh for it.
C6_HandlerAfterTeardownNoOp ==
    [][\A e \in Entities :
          state[e] = "removed"
          => /\ loc_data'[e] = loc_data[e]
             /\ unsub_update'[e] = unsub_update[e]
             /\ render_req'[e] => render_req[e]]_vars

\* ------------------------------------------------------------------ C7
\* C7 as claimed: a default-location entity is connected from its creation
\* to its removal, and no other entity ever is.
C7_SubscribedFromCreation ==
    \A e \in Entities :
        /\ (Live(e) /\ loc_params[e] = None) => Subscribed(e)
        /\ state[e] = "removed" => ~Subscribed(e)
        /\ loc_params[e] # None => ~Subscribed(e)

\* C7 amended: a default-location entity is connected, once, from the
\* update request that resolves its LocData until its removal; it is not
\* connected before that request nor after removal, and an entity with
\* explicit LocParams never is.
C7_SubscribedFromFirstUpdate ==
    \A e \in Entities :
        /\ (Live(e) /\ loc_params[e] = None /\ Bound(e)) => Connections(e) = 1
        /\ (Live(e) /\ ~Bound(e)) => ~Subscribed(e)
        /\ state[e] \in {"absent", "removed"} => ~Subscribed(e)
        /\ loc_params[e] # None => ~Subscribed(e)

\* A removed default-location entity that had been connected (it was handed
\* a broadcast), next to a live connected one and nothing connected twice.
C7_Witness ==
    \E e1, e2 \in Entities :
        /\ state[e1] = "removed" /\ loc_params[e1] = None /\ ~Subscribed(e1)
        /\ \E b \in DOMAIN snap : e1 \in snap[b].ents
        /\ Live(e2) /\ loc_params[e2] = None /\ Subscribed(e2)

\* ------------------------------------------------------------------ C8
\* A step of SpecSvc that is a service call.
IsCall == svc' # svc \/ entries' # entries

\* C8: update_location on an entry that was not created by the user, or
\* whose options hold no latitude, raises ValueError and changes no entry's
\* options; on a user-created entry with a latitude it sets exactly the
\* supplied fields in that entry's options and changes nothing else.
C8_UpdateLocationOnlyEditable ==
    [][(IsCall /\ svc'.op = "update_location" /\ svc'.found # 0)
       => LET i == svc'.found
              en == entries[i]
              cfg == svc'.cfg
          IN  /\ en.title = svc'.title
              /\ IF en.source # "user" \/ "latitude" \notin DOMAIN en.options
                 THEN svc'.raised /\ entries' = entries
                 ELSE /\ ~svc'.raised
                      /\ DOMAIN entries' = DOMAIN entries
                      /\ \A k \in DOMAIN entries : k # i => entries'[k] = entries[k]
                      /\ entries'[i].title = en.title
                      /\ entries'[i].source = en.source
                      /\ entries'[i].disabled = en.disabled
                      /\ DOMAIN entries'[i].options = DOMAIN en.options
                      /\ \A f \in DOMAIN en.options :
                            entries'[i].options[f] =
                                IF f \notin DOMAIN cfg THEN en.options[f]
                                ELSE IF f = "observer_elevation" THEN <<cfg[f], cfg[f]>>
                                ELSE cfg[f]]_vars

\* update_location has just raised on an imported entry, after an earlier
\* call changed the location of a user-created entry.
C8_Witness ==
    /\ svc.op = "update_location" /\ svc.raised /\ svc.found # 0
    /\ entries[svc.found].source = "import"
    /\ "latitude" \in DOMAIN entries[svc.found].options
    /\ \E k \in DOMAIN entries :
        /\ entries[k].source = "user"
        /\ "latitude" \in DOMAIN entries[k].options
        /\ entries[k].options.latitude = NewValues.latitude

\* ------------------------------------------------------------------ C9
\* C9: a call of get_location or update_location whose title matches no
\* entry that is enabled and not ignored raises ValueError and changes no
\* entry; otherwise the call is about the first such entry, and
\* get_location returns the title with that entry's location fields (HA's
\* location for an entry without a latitude) and changes no entry.
C9_UnknownTitleRaises ==
    [][IsCall
       => LET match == {i \in DOMAIN entries :
                          /\ entries[i].title = svc'.title
                          /\ ~entries[i].disabled
                          /\ entries[i].source # "ignore"}
          IN  IF match = {}
              THEN svc'.raised /\ svc'.found = 0 /\ entries' = entries
              ELSE /\ svc'.found \in match
                   /\ \A k \in match : svc'.found <= k
                   /\ svc'.op = "get_location"
                      => LET o == entries[svc'.found].options
                             own == "latitude" \in DOMAIN o
                         IN  /\ ~svc'.raised
                             /\ entries' = entries
                             /\ svc'.response.location = svc'.title
                             /\ svc'.response.latitude =
                                    IF own THEN o.latitude ELSE hassCfg.latitude
                             /\ svc'.response.longitude =
                                    IF own THEN o.longitude ELSE hassCfg.longitude
                             /\ svc'.response.time_zone =
                                    IF own THEN o.time_zone ELSE hassCfg.time_zone]_vars

\* get_location has just raised for a title that only a disabled entry
\* carries, in a set of entries where another title is served.
C9_Witness ==
    /\ svc.op = "get_location" /\ svc.raised /\ svc.found = 0
    /\ \E i \in DOMAIN entries : entries[i].title = svc.title /\ entries[i].disabled
    /\ \E k \in DOMAIN entries : entries[k].title # svc.title /\ ~entries[k].disabled
                                 /\ entries[k].source = "user"

\* ----------------------------------------------------------------- C10
\* C10 as claimed: nothing is memoized under LocParams whose time zone
\* cannot be determined, and no entity with such LocParams becomes BOUND.
C10_BadTimeZoneNotMemoized ==
    \A p \in Params :
        get_time_zone(p.time_zone) = NoTz
        => /\ locations[p] = NoData
           /\ \A e \in Entities : loc_params[e] = p => ~Bound(e)

\* ----------------------------------------------------------------- C11
\* A step that is an _astral_event call in which the astral method raised
\* TypeError or ValueError.
IsFailedQuery == query' # query /\ query'.outcome \in {"TypeError", "ValueError"}

ValuesOf(d) == [loc |-> d.loc, elv |-> d.elv, tzi |-> d.tzi]

\* A step that refreshes the default entry.
IsRefresh == Len(refreshed') = Len(refreshed) + 1

C13_EntriesNeverExpire ==
    [][/\ \A k \in Keys : locations[k] # NoData => locations'[k] # NoData
       /\ \A p \in Params : locations[p] # NoData => locations'[p] = locations[p]
       /\ IsRefresh => \A p \in Params : locations'[p] = locations[p]]_vars

\* An entry memoized under explicit LocParams before two refreshes is still
\* the one an entity got from its lookup, and the default entry has been
\* replaced since.
C13_Witness ==
    /\ Len(refreshed) >= 3
    /\ \E e \in Entities :
        /\ loc_params[e] = ParamsLondon /\ lookup_gen[e] = 1
        /\ lookup_res[e] # NoData /\ locations[ParamsLondon] = lookup_res[e]
    /\ locations[None] # refreshed[1].data

\* ----------------------------------------------------------------- C14
\* The last broadcast whose loc_updated ran for entity e (0: none did).
LastHandled(e) ==
    LET B == {b \in DOMAIN invoked : invoked[b][e] > 0}
    IN  IF B = {} THEN 0 ELSE CHOOSE b \in B : \A c \in B : c <= b

\* C14: a loc_updated run leaves its entity with the broadcast LocData, a
\* state refresh requested and, for a class with fixed updating, a schedule
\* that _unsub_update refers to, the one it referred to before being
\* cancelled; so an entity that handled broadcasts holds the LocData of the
\* last one it handled and never has more than one recomputation scheduled.
C14_HandlerCancelSwapReschedule ==
    /\ [][(ready # <<>> /\ Head(ready).t = "handler" /\ ready' = Tail(ready))
          => LET e == Head(ready).e IN
             /\ loc_data'[e] = Head(ready).data
             /\ render_req'[e]
             /\ unsub_update'[e] = HasFixedUpdating(e)
             /\ outstanding'[e] = IF HasFixedUpdating(e) THEN 1 ELSE 0]_vars
    /\ [](\A e \in Entities :
            /\ outstanding[e] <= 1
            /\ LastHandled(e) # 0 => loc_data[e] = snap[LastHandled(e)].data)

\* An entity with fixed updating that was added with its schedule set and
\* then handled two broadcasts: it holds the LocData of the second and has
\* one recomputation scheduled.
C14_Witness ==
    \E e \in Entities :
        /\ state[e] = "added" /\ HasFixedUpdating(e)
        /\ LastHandled(e) = 2 /\ invoked[1][e] = 1
        /\ loc_data[e] = snap[2].data /\ snap[2].data # snap[1].data
        /\ unsub_update[e] /\ outstanding[e] = 1

\* ----------------------------------------------------------------- C15
\* C15: a BOUND entity stays BOUND; an entity becomes BOUND in the step of
\* its first _get_loc_data call, which gives it the LocData looked up and,
\* for the default location, its one connection to SIG_HA_LOC_UPDATED; no
\* other step looks up or connects, so an entity never has two
\* connections, and a state refresh served for a BOUND entity keeps its
\* LocData and touches neither the store nor the targets.
C15_BoundOnceOnFirstUpdate ==
    /\ [][\A e \in Entities :
            /\ Bound(e) => Bound(e)'
            /\ (~Bound(e) /\ Bound(e)')
               => /\ Live(e)
                  /\ lookup_res[e] = NoData /\ lookup_res'[e] = loc_data'[e]
                  /\ loc_data'[e] = locations'[loc_params[e]]
                  /\ Connections(e)' = IF loc_params[e] = None THEN 1 ELSE 0
            /\ (Bound(e) \/ ~Bound(e)')
               => /\ lookup_res'[e] = lookup_res[e]
                  /\ Connections(e)' <= Connections(e)
            /\ (Bound(e) /\ render_req[e] /\ ~render_req'[e])
               => /\ loc_data'[e] = loc_data[e]
                  /\ locations' = locations /\ targets' = targets /\ nextId' = nextId]_vars
    /\ [](\A e \in Entities : Connections(e) <= 1)

\* A live default-location entity, connected once, that handled a broadcast
\* and had the state refresh it requested served: it holds the broadcast
\* LocData, not the one it looked up.
C15_Witness ==
    \E e \in Entities :
        /\ Live(e) /\ loc_params[e] = None /\ Connections(e) = 1
        /\ LastHandled(e) # 0 /\ ~render_req[e]
        /\ loc_data[e] = snap[LastHandled(e)].data /\ loc_data[e] # lookup_res[e]
        /\ PendingHandlers(LastHandled(e), e) = 0

\* ----------------------------------------------------------------- C18
\* C18: once async_setup has run the store has an entry under the default
\* key, and every _get_loc_data call of a default-location entity found
\* one: it returned a LocData built by a refresh and constructed nothing.
C18_DefaultEntryAlwaysPresent ==
    /\ setup => locations[None] # NoData
    /\ \A e \in Entities :
        (loc_params[e] = None /\ lookup_gen[e] # 0)
        => /\ lookup_res[e] # NoData
           /\ \E g \in DOMAIN refreshed : lookup_res[e] = refreshed[g].data
    /\ \A g \in DOMAIN refreshed : locations[None].id >= refreshed[g].data.id

\* Two default-location entities looked up, one before and one after a
\* core configuration update, and no LocData was constructed but by the
\* refreshes.
C18_Witness ==
    \E e1, e2 \in Entities :
        /\ loc_params[e1] = None /\ loc_params[e2] = None
        /\ lookup_gen[e1] = 1 /\ lookup_gen[e2] = 2
        /\ lookup_res[e1] = refreshed[1].data /\ lookup_res[e2] = refreshed[2].data
        /\ nextId = Len(refreshed) + 1

\* ----------------------------------------------------------------- C16
\* A step that runs the update listener at the head of the queue.
IsListenerStep == ready # <<>> /\ Head(ready).t = "listener" /\ ready' = Tail(ready)

\* The unique id is among the sensors or the binary sensors of the options.
InOptions(uid, options) ==
    \/ "sensors" \in DOMAIN options
        /\ \E k \in DOMAIN options.sensors : options.sensors[k].unique_id = uid
    \/ "binary_sensors" \in DOMAIN options
        /\ \E k \in DOMAIN options.binary_sensors : options.binary_sensors[k].unique_id = uid

\* C16: entry_updated for an entry removes from the registry exactly the
\* entities of that entry whose unique id is 32 lower-case hex characters
\* and is not the id of a sensor or binary sensor of the entry's options;
\* ids in upper case, shorter, longer, prefixed or still in the options, and
\* the entities of other entries, stay; then the entry is reloaded, once.
C16_StaleAutoCreatedRemoved ==
    [][IsListenerStep
       => LET i == Head(ready).e IN
          /\ registry' \subseteq registry
          /\ \A r \in registry :
                r \notin registry'
                <=> /\ r.entry = i
                    /\ r.unique_id \in {UuidA, UuidB}
                    /\ ~InOptions(r.unique_id, entries[i].options)
          /\ reloads' = [reloads EXCEPT ![i] = reloads[i] + 1]
          /\ entries' = entries]_vars

\* entry_updated has run for a first entry whose options still hold a
\* sensor with one auto-created id: the entity with the other auto-created
\* id is gone, the one in the options and those of other id forms are still
\* there, and so is every entity of the second entry.
C16_Witness ==
    /\ Len(entries) = 2 /\ reloads[1] > 0 /\ reloads[2] = 0
    /\ entries[1].options = HomeSensors
    /\ [entry |-> 1, unique_id |-> UuidB] \notin registry
    /\ \A u \in SampleIds \ {UuidB} : [entry |-> 1, unique_id |-> u] \in registry
    /\ \A u \in SampleIds : [entry |-> 2, unique_id |-> u] \in registry

\* ----------------------------------------------------------------- C17
\* A step in which handle_core_config_update handles an event of the kind.
IsEventStep(kind) ==
    /\ ready # <<>> /\ Head(ready).t = "event" /\ Head(ready).kind = kind
    /\ changes' = changes /\ svc' = svc
    /\ IF kind = "empty" THEN ready' = Tail(ready) ELSE IsRefresh

\* The update listener tasks of entry i in a queue.
ListenersOf(q, i) == Cardinality({k \in DOMAIN q : q[k].t = "listener" /\ q[k].e = i})

\* What a step did to entry i: async_reload calls made, listener tasks
\* started.
ReloadsIn(i) == reloads'[i] - reloads[i]
ListenersIn(i) == ListenersOf(ready', i) - ListenersOf(ready, i)

\* The entry is reloaded by the loop itself, and keeps its title.
ReloadedDirectly(i) ==
    ReloadsIn(i) = 1 /\ ListenersIn(i) = 0 /\ entries'[i] = entries[i]

\* The entry gets the host's location name as title and is reloaded by its
\* update listener, not by the loop.
ReloadedByListener(i) ==
    /\ ReloadsIn(i) = 0 /\ ListenersIn(i) = 1
    /\ entries'[i] = [entries[i] EXCEPT !.title = location_name]

\* The step sends no broadcast.
NoBroadcast ==
    /\ snap' = snap
    /\ \A k \in DOMAIN ready' : ready'[k].t = "dispatch" => ready'[k] \in {ready[j] : j \in DOMAIN ready}

\* The empty-data and imported-entry parts of C17, and the single reload a
\* listener task makes.
C17_Common ==
    /\ IsEventStep("empty")
       => /\ locations' = locations /\ refreshed' = refreshed /\ NoBroadcast
          /\ reloads' = reloads /\ entries' = entries /\ registry' = registry
          /\ \A i \in DOMAIN entries : ListenersIn(i) = 0
    /\ IsEventStep("name")
       => /\ NoBroadcast
          /\ DOMAIN entries' = DOMAIN entries
          /\ \A i \in DOMAIN entries :
                entries[i].source = "import"
                => ReloadsIn(i) = 0 /\ ListenersIn(i) = 0 /\ entries'[i] = entries[i]
    /\ IsListenerStep => reloads' = [reloads EXCEPT ![Head(ready).e] = @ + 1]

\* C17 as claimed: a location_name/language update makes every entry that
\* is not imported be reloaded exactly once, a home entry whose title
\* differs from the host's location name by its listener, any other entry
\* by the loop.
C17_EveryNonImportedReloadedOnce ==
    [][/\ C17_Common
       /\ IsEventStep("name")
          => \A i \in DOMAIN entries :
                entries[i].source # "import"
                => IF "latitude" \notin DOMAIN entries[i].options
                      /\ entries[i].title # location_name
                   THEN ReloadedByListener(i)
                   ELSE ReloadedDirectly(i)]_vars

\* C17 amended: that holds for the entries that are set up (neither
\* disabled nor ignored); a disabled or ignored home entry whose title
\* differs only gets the new title, with no listener and no reload, and
\* for any other disabled or ignored entry the loop calls async_reload
\* once.
C17_SetUpNonImportedReloadedOnce ==
    [][/\ C17_Common
       /\ IsEventStep("name")
          => \A i \in DOMAIN entries :
                entries[i].source # "import"
                => IF "latitude" \notin DOMAIN entries[i].options
                      /\ entries[i].title # location_name
                   THEN IF entries[i].disabled \/ entries[i].source = "ignore"
                        THEN /\ ReloadsIn(i) = 0 /\ ListenersIn(i) = 0
                             /\ entries'[i] = [entries[i] EXCEPT !.title = location_name]
                        ELSE ReloadedByListener(i)
                   ELSE ReloadedDirectly(i)]_vars

\* After one location_name update with everything run: the user's home
\* entry carries the new name and was reloaded once, by its listener, the
\* user's entry with a location of its own was reloaded once and kept its
\* title.
C17_Witness ==
    /\ Len(entries) = 2 /\ ready = <<>> /\ changes = 1 /\ Len(refreshed) = 2
    /\ location_name = "Casa"
    /\ entries[1].source = "user" /\ ~entries[1].disabled
    /\ entries[1].options = HomeSensors /\ entries[1].title = "Casa"
    /\ entries[2].source = "user" /\ ~entries[2].disabled
    /\ entries[2].options = LocOptions /\ entries[2].title = "Cabin"
    /\ reloads[1] = 1 /\ reloads[2] = 1
    /\ [entry |-> 1, unique_id |-> UuidB] \notin registry
    /\ snap = <<>>

====
